---- MODULE Spec2Model ----
(***************************************************************************)
(* The chain syncer (DefaultSyncer) of go-filecoin: HandleNewTipset,       *)
(* collectChain, widen and syncOne, over a chain store, a block fetcher    *)
(* and a consensus protocol that are reached through interfaces.           *)
(*                                                                         *)
(* A tipset key (types.SortedCidSet) is a set of block cids; the empty     *)
(* set is the empty key (the parents of genesis, and a nil TipSet).        *)
(***************************************************************************)
EXTENDS Naturals, Sequences, FiniteSets, TLC

(***************************************************************************)
(* The block universe the callers and the network draw from.               *)
(*   g                      genesis                                        *)
(*   a1, a2                 height 1, parents {g}    (siblings: widening)  *)
(*   b1                     height 2, parents {a1}                         *)
(*   x1                     height 2, parents {g, a1}: a parent key whose  *)
(*                          blocks do not form a tipset                    *)
(***************************************************************************)
Blocks == {"g", "a1", "a2", "b1", "x1"}

BlockParents ==
  [b \in Blocks |->
     CASE b = "g" -> {}
       [] b \in {"a1", "a2"} -> {"g"}
       [] b = "b1" -> {"a1"}
       [] OTHER -> {"g", "a1"}]

BlockHeight ==
  [b \in Blocks |->
     CASE b = "g" -> 0
       [] b \in {"a1", "a2"} -> 1
       [] OTHER -> 2]

BlockWeight ==
  [b \in Blocks |->
     CASE b = "g" -> 0
       [] b \in {"a2", "b1"} -> 3
       [] OTHER -> 1]

Genesis == {"g"}

\* The keys a caller may hand to HandleNewTipset.
CandidateKeys ==
  {{"g"}, {"a1"}, {"a2"}, {"b1"}, {"x1"}}

\* The callers (goroutines) of HandleNewTipset.
Procs == {"p1", "p2"}

\* var FinalityLimit = 600, scaled down so that chains reach it.
FinalityLimit == 2

\* The tipsets consensus.RunStateTransition may reject, fixed per run.
InvalidChoices == {{}, {{"a1", "a2"}, {"b1"}}, {{"a1"}}}

\* The blocks peers serve at start; Publish makes every block available.
InitialNet == Blocks \ {"b1"}

(***************************************************************************)
(* types.TipSet and the consensus protocol, as the syncer uses them.       *)
(***************************************************************************)
\* ts.Parents(): the parent key of the tipset's blocks.
TsParents(k) == BlockParents[CHOOSE b \in k : TRUE]

\* ts.Height()
TsHeight(k) == BlockHeight[CHOOSE b \in k : TRUE]

\* consensus.NewValidTipSet: the blocks form a tipset iff there is at least
\* one and all share parents and height.
NewValidTipSet(blks) ==
  /\ blks # {}
  /\ \A b1 \in blks, b2 \in blks :
       BlockParents[b1] = BlockParents[b2] /\ BlockHeight[b1] = BlockHeight[b2]

RECURSIVE SumWeight(_)
SumWeight(bs) ==
  IF bs = {} THEN 0
  ELSE LET b == CHOOSE x \in bs : TRUE
       IN BlockWeight[b] + SumWeight(bs \ {b})

\* The weight of the chain ending in tipset k.
RECURSIVE Weight(_)
Weight(k) == IF k = {} THEN 0 ELSE SumWeight(k) + Weight(TsParents(k))

\* consensus.IsHeavier(a, b, ...): strictly heavier.
IsHeavier(a, b) == Weight(a) > Weight(b)

\* The keys reached from k by following parents (k excluded).
RECURSIVE AncestorKeys(_)
AncestorKeys(k) ==
  IF k = {} THEN {}
  ELSE LET pk == UNION {BlockParents[b] : b \in k}
       IN IF pk = {} THEN {} ELSE {pk} \cup AncestorKeys(pk)

VARIABLES
  store,       \* chainStore: the keys stored with their state root
  head,        \* chainStore: the head key
  blockstore,  \* the node's blockstore: the blocks resolvable locally
  caching,     \* the fetcher leaves what it fetched in the blockstore
  net,         \* the blocks peers serve
  invalid,     \* the tipsets RunStateTransition rejects
  badTipSets,  \* syncer.badTipSets
  SyncMode,    \* syncer.SyncMode
  mu,          \* syncer.mu: its holder, or "free"
  pc,          \* where each caller is in HandleNewTipset
  cand,        \* tipsetCids, the argument of the call
  cancelled,   \* the call's ctx is done
  cursor,      \* collectChain: tipsetCids of the walk
  chain,       \* collectChain / HandleNewTipset: chain, oldest first
  idx,         \* HandleNewTipset: the loop index i (from 1)
  parent,      \* HandleNewTipset: parent
  next,        \* syncOne: next
  site,        \* which call of syncOne runs: "widen" (l.432), "chain" (l.438)
  hd,          \* syncOne: head, read on entry
  result,      \* the call's return: "none" while running
  \* observations of the run, read by the properties only
  puts,        \* PutTipSetAndState calls of the call
  fetchLog,    \* keys the call asked the fetcher for
  fetchedBad,  \* keys fetched while in the bad cache
  rejected,    \* the tipset RunStateTransition rejected in the call
  pre,         \* store, head, bad cache, net and mode when the call took the lock
  hadAll,      \* HasAllBlocks(tipsetCids) at l.399
  startMode,   \* SyncMode when collectChain started
  lastKey      \* the key of the previous call; {} if its ctx was cancelled
               \* or once anything but a call happened since it began

progVars == <<store, head, blockstore, caching, net, invalid, badTipSets, SyncMode, mu>>
callVars == <<pc, cand, cancelled, cursor, chain, idx, parent, next, site, hd, result>>
obsVars == <<puts, fetchLog, fetchedBad, rejected, pre, hadAll, startMode, lastKey>>
vars == <<progVars, callVars, obsVars>>

(***************************************************************************)
(* The chain store, by its contract (syncerChainReader).                   *)
(***************************************************************************)
HasTipSetAndState(k) == k \in store

\* HasAllBlocks: every cid is locally resolvable.
HasAllBlocks(cs) == cs \subseteq blockstore

\* PutTipSetAndState keeps the blocks of the tipset with it: a stored tipset
\* is resolvable locally (GetTipSet, GetBlock).
BlocksAfterPut(ts) == blockstore \cup ts

\* GetTipSetAndStatesByParentsAndHeight
GetTipSetAndStatesByParentsAndHeight(pk, h) ==
  {t \in store : TsParents(t) = pk /\ TsHeight(t) = h}

(***************************************************************************)
(* The state after NewDefaultSyncer over a store that holds genesis.       *)
(***************************************************************************)
NoSnap == [store |-> {}, head |-> {}, bad |-> {}, net |-> {}, mode |-> "none"]

\* What a call finds when it takes the lock.
Snap == [store |-> store, head |-> head, bad |-> badTipSets, net |-> net,
         mode |-> SyncMode]

Init ==
  /\ store = {Genesis}
  /\ head = Genesis
  /\ blockstore = Genesis
  /\ caching \in BOOLEAN
  /\ net = InitialNet
  /\ invalid \in InvalidChoices
  /\ badTipSets = {}
  /\ SyncMode = "Syncing"
  /\ mu = "free"
  /\ pc = [p \in Procs |-> "lock"]
  /\ cand = [p \in Procs |-> {}]
  /\ cancelled = [p \in Procs |-> FALSE]
  /\ cursor = [p \in Procs |-> {}]
  /\ chain = [p \in Procs |-> <<>>]
  /\ idx = [p \in Procs |-> 0]
  /\ parent = [p \in Procs |-> {}]
  /\ next = [p \in Procs |-> {}]
  /\ site = [p \in Procs |-> "none"]
  /\ hd = [p \in Procs |-> {}]
  /\ result = [p \in Procs |-> "none"]
  /\ puts = [p \in Procs |-> 0]
  /\ fetchLog = [p \in Procs |-> {}]
  /\ fetchedBad = [p \in Procs |-> {}]
  /\ rejected = [p \in Procs |-> {}]
  /\ pre = [p \in Procs |-> NoSnap]
  /\ hadAll = [p \in Procs |-> FALSE]
  /\ startMode = [p \in Procs |-> "none"]
  /\ lastKey = {}

\* The keys of the tipsets of a chain from position i on.
KeysFrom(c, i) == {c[j] : j \in {n \in 1..Len(c) : n >= i}}

(***************************************************************************)
(* HandleNewTipset(ctx, tipsetCids).  A caller is inside a call or at the  *)
(* lock of its next one (pc = "lock"); tipsetCids is bound where the call  *)
(* first reads it, at HasAllBlocks.                                        *)
(***************************************************************************)
\* Lock without mutual exclusion: the caller enters although mu is held.
LockNoWait(p) ==
  /\ pc[p] = "lock"
  /\ mu' = p
  /\ pc' = [pc EXCEPT ![p] = "check"]
  /\ pre' = [pre EXCEPT ![p] = Snap]
  /\ UNCHANGED <<store, head, blockstore, caching, net, invalid, badTipSets,
                 SyncMode, cand, cancelled, cursor, chain, idx, parent, next,
                 site, hd, result, puts, fetchLog, fetchedBad, rejected,
                 hadAll, startMode, lastKey>>

\* syncer.mu.Lock()
Lock(p) ==
  /\ pc[p] = "lock"
  /\ mu = "free"
  /\ mu' = p
  /\ pc' = [pc EXCEPT ![p] = "check"]
  /\ pre' = [pre EXCEPT ![p] = Snap]
  /\ UNCHANGED <<store, head, blockstore, caching, net, invalid, badTipSets,
                 SyncMode, cand, cancelled, cursor, chain, idx, parent, next, site, hd,
                 result, puts, fetchLog, fetchedBad, rejected, hadAll,
                 startMode, lastKey>>

\* The early return left out: the call always walks the chain.
NeverFinishedEarly(k) == FALSE

\* if syncer.chainStore.HasAllBlocks(ctx, tipsetCids.ToSlice())
FinishedEarly(k) == HasAllBlocks(k)

\* { return nil }; else collectChain starts at tipsetCids with an empty
\* chain.
CheckHasAllBlocks(p, k) ==
  /\ pc[p] = "check"
  /\ cand' = [cand EXCEPT ![p] = k]
  /\ hadAll' = [hadAll EXCEPT ![p] = HasAllBlocks(k)]
  /\ IF FinishedEarly(k)
     THEN /\ result' = [result EXCEPT ![p] = "ok"]
          /\ pc' = [pc EXCEPT ![p] = "unlock"]
          /\ UNCHANGED <<cursor, startMode>>
     ELSE /\ pc' = [pc EXCEPT ![p] = "collect"]
          /\ cursor' = [cursor EXCEPT ![p] = k]
          /\ startMode' = [startMode EXCEPT ![p] = SyncMode]
          /\ UNCHANGED result
  /\ UNCHANGED <<progVars, cancelled, chain, idx, parent, next, site, hd,
                 puts, fetchLog, fetchedBad, rejected, pre, lastKey>>

(***************************************************************************)
(* collectChain: one iteration of its loop per step.                       *)
(***************************************************************************)
\* The bound taken inclusively: one tipset more is collected.
LoopGuardInclusive(p) == SyncMode = "Syncing" \/ Len(chain[p]) <= FinalityLimit

\* for syncer.SyncMode == Syncing || len(chain) < FinalityLimit
LoopGuard(p) == SyncMode = "Syncing" \/ Len(chain[p]) < FinalityLimit

\* The cache asked about the candidate only, not about the key of the walk.
CandidateIsBad(p) == cand[p] \in badTipSets

\* if syncer.badTipSets.Has(tsKey)
CursorIsBad(p) == cursor[p] \in badTipSets

\* getBlksMaybeFromNet: all or nothing, from the blockstore or the network,
\* and failing once ctx is done.
FetchSucceeds(p, k) == ~cancelled[p] /\ k \subseteq (blockstore \cup net)

\* The blockstore after a fetch of k that succeeded: the production fetcher
\* (bitswap over the shared blockstore) keeps the blocks, another
\* implementation of syncFetcher need not.
AfterFetch(k) == IF caching THEN blockstore \cup k ELSE blockstore

\* Only the key of the walk recorded, the tipsets collected so far left out.
BadAfterInvalidCursorOnly(p) == badTipSets \cup {cursor[p]}

\* syncer.badTipSets.Add(tsKey); syncer.badTipSets.AddChain(chain)
BadAfterInvalid(p) == badTipSets \cup {cursor[p]} \cup KeysFrom(chain[p], 1)

\* A failed fetch treated as an invalid tipset: the walk is marked bad.
BadAfterFetchErrorMarked(p) == badTipSets \cup {cursor[p]} \cup KeysFrom(chain[p], 1)

\* blks, err := syncer.getBlksMaybeFromNet(ctx, tipsetCids.ToSlice())
\* if err != nil { return nil, err }: the cache is left as it is.
BadAfterFetchError(p) == badTipSets

\* The error of collectChain not returned: the call goes on with the chain.
CollectErrorIgnored(p) == "loadParent"

\* chain, err := syncer.collectChain(ctx, tipsetCids)
\* if err != nil { return err }
CollectErrorExit(p) == "unlock"

collectChain(p) ==
  /\ pc[p] = "collect"
  /\ LET k == cursor[p]
         walk == LoopGuard(p) /\ ~HasTipSetAndState(k) /\ ~CursorIsBad(p)
         got == walk /\ FetchSucceeds(p, k)
     IN /\ fetchLog' = [fetchLog EXCEPT ![p] = IF walk THEN @ \cup {k} ELSE @]
        /\ fetchedBad' = [fetchedBad EXCEPT ![p] =
                            IF walk /\ k \in badTipSets THEN @ \cup {k} ELSE @]
        /\ blockstore' = IF got THEN AfterFetch(k) ELSE blockstore
        /\ badTipSets' = CASE got /\ ~NewValidTipSet(k) -> BadAfterInvalid(p)
                           [] walk /\ ~got -> BadAfterFetchError(p)
                           [] OTHER -> badTipSets
        /\ chain' = [chain EXCEPT ![p] =
                       IF got /\ NewValidTipSet(k) THEN <<k>> \o @ ELSE @]
        /\ cursor' = [cursor EXCEPT ![p] =
                        IF got /\ NewValidTipSet(k) THEN TsParents(k) ELSE @]
        /\ result' = [result EXCEPT ![p] =
                        CASE ~LoopGuard(p) -> "ErrNewChainTooLong"
                          [] LoopGuard(p) /\ HasTipSetAndState(k) -> @
                          [] LoopGuard(p) /\ ~HasTipSetAndState(k)
                               /\ CursorIsBad(p) -> "ErrChainHasBadTipSet"
                          [] walk /\ ~got -> "fetch"
                          [] got /\ ~NewValidTipSet(k) -> "invalidTipSet"
                          [] OTHER -> @]
        /\ pc' = [pc EXCEPT ![p] =
                    CASE LoopGuard(p) /\ HasTipSetAndState(k) -> "loadParent"
                      [] got /\ NewValidTipSet(k) -> "collect"
                      [] OTHER -> CollectErrorExit(p)]
  /\ UNCHANGED <<store, head, caching, net, invalid, SyncMode, mu, cand,
                 cancelled, idx, parent, next, site, hd, puts, rejected, pre,
                 hadAll, startMode, lastKey>>

(***************************************************************************)
(* HandleNewTipset after collectChain: chain[0].Parents() and GetTipSet.   *)
(* Indexing an empty chain is a run-time panic.                            *)
(***************************************************************************)
loadParent(p) ==
  /\ pc[p] = "loadParent"
  /\ LET empty == chain[p] = <<>>
         pk == IF empty THEN {} ELSE TsParents(chain[p][1])
         found == ~empty /\ HasTipSetAndState(pk)
     IN /\ parent' = [parent EXCEPT ![p] = IF found THEN pk ELSE @]
        /\ idx' = [idx EXCEPT ![p] = IF found THEN 1 ELSE @]
        /\ result' = [result EXCEPT ![p] =
                        CASE empty -> "panic"
                          [] ~empty /\ ~found -> "notFound"
                          [] OTHER -> @]
        /\ pc' = [pc EXCEPT ![p] = IF found THEN "widen" ELSE "unlock"]
  /\ UNCHANGED <<progVars, cand, cancelled, cursor, chain, next, site, hd,
                 obsVars>>

(***************************************************************************)
(* widen(ctx, ts): the results it may return; {} is nil.                   *)
(***************************************************************************)
\* No widening: the tipset of the chain is synced as it came.
widenNever(ts) == {{}}

widen(ts) ==
  LET candidates == GetTipSetAndStatesByParentsAndHeight(TsParents(ts), TsHeight(ts))
      \* the first of the largest, in the order the store returns them
      largest == {m \in candidates :
                    \A c \in candidates : Cardinality(c) <= Cardinality(m)}
  IN IF candidates = {} THEN {{}}
     ELSE {IF (ts \cup m) = ts \/ (ts \cup m) = m THEN {} ELSE ts \cup m :
             m \in largest}

\* if i == 0 { wts, err := syncer.widen(ctx, ts); ... }: the tipset handed
\* to syncOne first.
WidenStep(p) ==
  /\ pc[p] = "widen"
  /\ \E wts \in widen(chain[p][1]) :
       /\ next' = [next EXCEPT ![p] = IF wts # {} THEN wts ELSE chain[p][1]]
       /\ site' = [site EXCEPT ![p] = IF wts # {} THEN "widen" ELSE "chain"]
  /\ pc' = [pc EXCEPT ![p] = "syncOne"]
  /\ UNCHANGED <<progVars, cand, cancelled, cursor, chain, idx, parent, hd,
                 result, obsVars>>

(***************************************************************************)
(* What HandleNewTipset does with the return e of syncOne.                 *)
(***************************************************************************)
\* The error of syncOne swallowed: the tipset is marked bad and the loop
\* goes on to the next one, parent left as it was.
OnChainReturnContinue(p, e) ==
  LET i == idx[p]
  IN /\ badTipSets' = IF e = "ok" THEN badTipSets
                      ELSE badTipSets \cup KeysFrom(chain[p], i)
     /\ IF i < Len(chain[p])
        THEN /\ idx' = [idx EXCEPT ![p] = i + 1]
             /\ parent' = [parent EXCEPT ![p] = IF e = "ok" THEN chain[p][i] ELSE @]
             /\ next' = [next EXCEPT ![p] = chain[p][i + 1]]
             /\ pc' = [pc EXCEPT ![p] = "syncOne"]
             /\ UNCHANGED result
        ELSE /\ result' = [result EXCEPT ![p] = "ok"]
             /\ pc' = [pc EXCEPT ![p] = "unlock"]
             /\ UNCHANGED <<idx, parent, next>>
     /\ UNCHANGED site

\* The failure of the widened tipset handled as that of a tipset of the
\* chain: the chain is marked bad before the error is returned.
OnWidenedReturnMarked(p, e) ==
  /\ IF e = "ok"
     THEN /\ next' = [next EXCEPT ![p] = chain[p][idx[p]]]
          /\ site' = [site EXCEPT ![p] = "chain"]
          /\ pc' = [pc EXCEPT ![p] = "syncOne"]
          /\ UNCHANGED <<result, badTipSets>>
     ELSE /\ badTipSets' = badTipSets \cup KeysFrom(chain[p], idx[p])
          /\ result' = [result EXCEPT ![p] = e]
          /\ pc' = [pc EXCEPT ![p] = "unlock"]
          /\ UNCHANGED <<next, site>>
  /\ UNCHANGED <<idx, parent>>

\* err = syncer.syncOne(ctx, parent, wts); if err != nil { return err }
OnWidenedReturn(p, e) ==
  /\ IF e = "ok"
     THEN /\ next' = [next EXCEPT ![p] = chain[p][idx[p]]]
          /\ site' = [site EXCEPT ![p] = "chain"]
          /\ pc' = [pc EXCEPT ![p] = "syncOne"]
          /\ UNCHANGED result
     ELSE /\ result' = [result EXCEPT ![p] = e]
          /\ pc' = [pc EXCEPT ![p] = "unlock"]
          /\ UNCHANGED <<next, site>>
  /\ UNCHANGED <<badTipSets, idx, parent>>

\* The parent not advanced: every tipset is applied to the first parent.
NextParentStale(p) == parent[p]

\* parent = ts
NextParent(p) == chain[p][idx[p]]

\* The cache rebuilt from the failed chain, what it held before dropped.
BadAfterSyncFailureReset(p) == KeysFrom(chain[p], idx[p])

\* syncer.badTipSets.AddChain(chain[i:])
BadAfterSyncFailure(p) == badTipSets \cup KeysFrom(chain[p], idx[p])

\* if err = syncer.syncOne(ctx, parent, ts); err != nil {
\*     syncer.badTipSets.AddChain(chain[i:]); return err }
\* parent = ts
OnChainReturn(p, e) ==
  LET i == idx[p]
  IN IF e = "ok"
     THEN /\ IF i < Len(chain[p])
             THEN /\ idx' = [idx EXCEPT ![p] = i + 1]
                  /\ parent' = [parent EXCEPT ![p] = NextParent(p)]
                  /\ next' = [next EXCEPT ![p] = chain[p][i + 1]]
                  /\ pc' = [pc EXCEPT ![p] = "syncOne"]
                  /\ UNCHANGED result
             ELSE /\ result' = [result EXCEPT ![p] = "ok"]
                  /\ pc' = [pc EXCEPT ![p] = "unlock"]
                  /\ UNCHANGED <<idx, parent, next>>
          /\ UNCHANGED <<badTipSets, site>>
     ELSE /\ badTipSets' = BadAfterSyncFailure(p)
          /\ result' = [result EXCEPT ![p] = e]
          /\ pc' = [pc EXCEPT ![p] = "unlock"]
          /\ UNCHANGED <<idx, parent, next, site>>

SyncOneReturn(p, e) ==
  IF site[p] = "widen" THEN OnWidenedReturn(p, e) ELSE OnChainReturn(p, e)

(***************************************************************************)
(* syncOne(ctx, parent, next).                                             *)
(***************************************************************************)
\* tipSetState: the parent must be in the store, and its state loads unless
\* ctx is done.
tipSetState(p, k) ==
  CASE ~HasTipSetAndState(k) -> "ErrUnexpectedStoreState"
    [] HasTipSetAndState(k) /\ cancelled[p] -> "cancelled"
    [] OTHER -> "ok"

\* consensus.RunStateTransition(ctx, next, ancestors, st)
RunStateTransition(k) == IF k \in invalid THEN "invalid" ELSE "ok"

\* The write to the store left out.
StoreWithoutPut(p) == store

\* The write drops what the store held.
StoreReplacedByPut(p) == {Genesis, next[p]}

\* err = syncer.chainStore.PutTipSetAndState(ctx, &TipSetAndState{next, root})
StoreAfterPut(p) == store \cup {next[p]}

\* From the read of the head to PutTipSetAndState.
syncOneValidate(p) ==
  /\ pc[p] = "syncOne"
  /\ hd' = [hd EXCEPT ![p] = head]
  /\ LET e == CASE head = next[p] -> "ok"
                [] head # next[p] /\ tipSetState(p, parent[p]) # "ok" ->
                     tipSetState(p, parent[p])
                [] OTHER -> RunStateTransition(next[p])
         put == head # next[p] /\ e = "ok"
     IN /\ rejected' = [rejected EXCEPT ![p] =
                          IF head # next[p] /\ e = "invalid" THEN next[p] ELSE @]
        /\ IF put
           THEN /\ store' = StoreAfterPut(p)
                /\ blockstore' = BlocksAfterPut(next[p])
                /\ puts' = [puts EXCEPT ![p] = @ + 1]
                /\ pc' = [pc EXCEPT ![p] = "promote"]
                /\ UNCHANGED <<badTipSets, idx, parent, next, site, result>>
           ELSE /\ SyncOneReturn(p, e)
                /\ UNCHANGED <<store, blockstore, puts>>
  /\ UNCHANGED <<head, caching, net, invalid, SyncMode, mu, cand,
                 cancelled, cursor, chain, fetchLog, fetchedBad, pre, hadAll,
                 startMode, lastKey>>

\* IsReorg(*headTipSet, newChain): the head read on entry is not among next
\* and its ancestors.
IsReorg(p) == hd[p] \notin ({next[p]} \cup AncestorKeys(next[p]))

\* The head set whatever the weights.
HeavierAlways(p) == TRUE

\* The head set only when the change is a linear extension.
HeavierUnlessReorg(p) == IsHeavier(next[p], hd[p]) /\ ~IsReorg(p)

\* heavier, err := syncer.consensus.IsHeavier(ctx, next, *headTipSet, ...)
\* if heavier { ... }
Heavier(p) == IsHeavier(next[p], hd[p])

\* From the second tipSetState to SetHead: the weight comparison with the
\* head read on entry.
syncOnePromote(p) ==
  /\ pc[p] = "promote"
  /\ IF cancelled[p]
     THEN /\ SyncOneReturn(p, "cancelled")
          /\ UNCHANGED head
     ELSE /\ head' = IF Heavier(p) THEN next[p] ELSE head
          /\ SyncOneReturn(p, "ok")
  /\ UNCHANGED <<store, blockstore, caching, net, invalid, SyncMode, mu, cand,
                 cancelled, cursor, chain, hd, obsVars>>

\* defer syncer.mu.Unlock(), and the return.
Unlock(p) ==
  /\ pc[p] = "unlock"
  /\ mu' = "free"
  /\ lastKey' = IF cancelled[p] \/ net # pre[p].net \/ SyncMode # pre[p].mode
                 THEN {} ELSE cand[p]
  /\ pc' = [pc EXCEPT ![p] = "lock"]
  /\ cand' = [cand EXCEPT ![p] = {}]
  /\ cancelled' = [cancelled EXCEPT ![p] = FALSE]
  /\ cursor' = [cursor EXCEPT ![p] = {}]
  /\ chain' = [chain EXCEPT ![p] = <<>>]
  /\ idx' = [idx EXCEPT ![p] = 0]
  /\ parent' = [parent EXCEPT ![p] = {}]
  /\ next' = [next EXCEPT ![p] = {}]
  /\ site' = [site EXCEPT ![p] = "none"]
  /\ hd' = [hd EXCEPT ![p] = {}]
  /\ result' = [result EXCEPT ![p] = "none"]
  /\ puts' = [puts EXCEPT ![p] = 0]
  /\ fetchLog' = [fetchLog EXCEPT ![p] = {}]
  /\ fetchedBad' = [fetchedBad EXCEPT ![p] = {}]
  /\ rejected' = [rejected EXCEPT ![p] = {}]
  /\ pre' = [pre EXCEPT ![p] = NoSnap]
  /\ hadAll' = [hadAll EXCEPT ![p] = FALSE]
  /\ startMode' = [startMode EXCEPT ![p] = "none"]
  /\ UNCHANGED <<store, head, blockstore, caching, net, invalid, badTipSets,
                 SyncMode>>

(***************************************************************************)
(* The environment.                                                        *)
(***************************************************************************)
\* The caller cancels the ctx of a running call.
Cancel(p) ==
  /\ pc[p] \in {"collect", "syncOne", "promote"}
  /\ ~cancelled[p]
  /\ cancelled' = [cancelled EXCEPT ![p] = TRUE]
  /\ lastKey' = {}
  /\ UNCHANGED <<progVars, pc, cand, cursor, chain, idx, parent, next, site, hd,
                 result, puts, fetchLog, fetchedBad, rejected, pre, hadAll,
                 startMode>>

\* Peers come to serve every block.
Publish ==
  /\ net # Blocks
  /\ net' = Blocks
  /\ lastKey' = {}
  /\ UNCHANGED <<store, head, blockstore, caching, invalid, badTipSets,
                 SyncMode, mu, callVars, puts, fetchLog, fetchedBad, rejected,
                 pre, hadAll, startMode>>

\* The node sets the exported SyncMode field once it has caught up.
SetCaughtUp ==
  /\ SyncMode = "Syncing"
  /\ SyncMode' = "CaughtUp"
  /\ lastKey' = {}
  /\ UNCHANGED <<store, head, blockstore, caching, net, invalid, badTipSets,
                 mu, callVars, puts, fetchLog, fetchedBad, rejected, pre,
                 hadAll, startMode>>

Next ==
  \/ \E p \in Procs : Lock(p)
  \/ \E p \in Procs, k \in CandidateKeys : CheckHasAllBlocks(p, k)
  \/ \E p \in Procs : collectChain(p)
  \/ \E p \in Procs : loadParent(p)
  \/ \E p \in Procs : WidenStep(p)
  \/ \E p \in Procs : syncOneValidate(p)
  \/ \E p \in Procs : syncOnePromote(p)
  \/ \E p \in Procs : Unlock(p)
  \/ \E p \in Procs : Cancel(p)
  \/ Publish
  \/ SetCaughtUp

Spec == Init /\ [][Next]_vars

(***************************************************************************)
(* Properties.                                                             *)
(***************************************************************************)
\* Between the lock and the unlock of a call.
InCall == {"check", "collect", "loadParent", "widen", "syncOne", "promote", "unlock"}

\* The call of p has returned (its deferred Unlock is what runs next).
Returned(p) == pc[p] = "unlock"

\* C1: at most one HandleNewTipset call is between acquiring and releasing
\* the syncer lock at any time, and it is the holder of mu.
C1_MutualExclusion ==
  \A p \in Procs, q \in Procs :
    (pc[p] \in InCall /\ pc[q] \in InCall) => (p = q /\ mu = p)

\* A call in the middle of syncOne while the other caller waits at the lock.
C1_Witness ==
  \E p \in Procs, q \in Procs :
    p # q /\ pc[p] = "promote" /\ pc[q] = "lock" /\ mu = p

\* C2: in every reachable state the head names a tipset that is in the
\* store (with its state root) and whose blocks are resolvable.
C2_HeadInStore == head \in store /\ HasAllBlocks(head)

\* The head has been promoted to a synced tipset.
C2_Witness == head # Genesis /\ head \in store

\* C3: every tipset in the store has an empty parent set (genesis) or has
\* its parent tipset in the store, whatever the outcome of the calls.
C3_ParentsInStore ==
  \A t \in store : TsParents(t) = {} \/ TsParents(t) \in store

\* A call that failed or was cancelled after persisting part of its chain.
C3_Witness ==
  \E p \in Procs :
    /\ Returned(p)
    /\ result[p] \in {"invalid", "cancelled"}
    /\ puts[p] > 0
    /\ \E t \in store : TsHeight(t) > 0

\* C4: a step of syncOne that reaches the weight comparison has persisted
\* next, and sets the head to next iff IsHeavier(next, head); the head
\* changes in no other way, so every change is to a strictly heavier tipset.
C4_HeadOnlyToHeavier ==
  [][/\ head' # head => (IsHeavier(head', head) /\ head' \in store')
     /\ \A p \in Procs :
          (pc[p] = "promote" /\ pc'[p] # "promote" /\ ~cancelled[p]) =>
            /\ next[p] \in store
            /\ head' = IF IsHeavier(next[p], head) THEN next[p] ELSE head]_vars

\* A call persisted a tipset exactly as heavy as an earlier promoted head,
\* and the head stayed where it was.
C4_Witness ==
  \E p \in Procs :
    /\ Returned(p)
    /\ result[p] = "ok"
    /\ puts[p] > 0
    /\ head # Genesis
    /\ next[p] \in store
    /\ next[p] # head
    /\ Weight(next[p]) = Weight(head)

\* C5: a call whose key had all its blocks in the store returns success
\* with the store, the head and the bad cache as it found them, having
\* asked the fetcher for nothing.
C5_EarlyReturnNoEffect ==
  \A p \in Procs :
    (Returned(p) /\ hadAll[p]) =>
      /\ result[p] = "ok"
      /\ store = pre[p].store
      /\ head = pre[p].head
      /\ badTipSets = pre[p].bad
      /\ fetchLog[p] = {}
      /\ puts[p] = 0

\* The candidate is the current head, a tipset synced earlier.
C5_Witness ==
  \E p \in Procs :
    Returned(p) /\ hadAll[p] /\ cand[p] = head /\ head # Genesis

\* C6: a call with the key of the previous call, neither of them cancelled
\* and nothing else having happened since the previous call began,
\* returns and leaves the store, the head and the bad cache as the previous
\* call left them.
C6_Idempotent ==
  \A p \in Procs :
    (Returned(p) /\ lastKey = cand[p]) =>
      /\ result[p] # "panic"
      /\ store = pre[p].store
      /\ head = pre[p].head
      /\ badTipSets = pre[p].bad

\* A second call with the same key that walked the chain again, after a
\* first call that changed the store or the bad cache.
C6_Witness ==
  \E p \in Procs :
    /\ Returned(p)
    /\ lastKey = cand[p]
    /\ ~hadAll[p]
    /\ fetchLog[p] # {}
    /\ (store # {Genesis} \/ badTipSets # {})

\* C7: a call whose collectChain ran in CaughtUp mode persists at most
\* FinalityLimit tipsets, the widened one included.
C7_FinalityBound ==
  \A p \in Procs : startMode[p] = "CaughtUp" => puts[p] <= FinalityLimit

\* A CaughtUp call that persisted FinalityLimit tipsets, one of them widened.
C7_Witness ==
  \E p \in Procs :
    /\ startMode[p] = "CaughtUp"
    /\ puts[p] = FinalityLimit
    /\ \E t \in store : Cardinality(t) > 1

\* The tipsets not yet stored on the walk back from key k.
RECURSIVE UnknownLen(_)
UnknownLen(k) ==
  IF k = {} \/ k \in store THEN 0
  ELSE 1 + UnknownLen(UNION {BlockParents[b] : b \in k})

\* C8: NewChainTooLong is returned only in CaughtUp mode and only when the
\* tipsets not yet stored between the candidate and its first stored
\* ancestor are more than FinalityLimit.
C8_TooLongOnlyBeyondLimit ==
  \A p \in Procs :
    result[p] = "ErrNewChainTooLong" =>
      /\ SyncMode = "CaughtUp"
      /\ Len(chain[p]) + UnknownLen(cursor[p]) > FinalityLimit

\* C9: no key is fetched while it is in the bad cache; a loop iteration of
\* collectChain on a key that is cached bad and not stored ends the call
\* with ChainHasBadTipSet, and by then the call has asked the fetcher
\* neither for that key nor for any ancestor of it.
C9_BadShortCircuit ==
  [][\A p \in Procs :
       /\ fetchedBad'[p] = {}
       /\ (/\ pc[p] = "collect"
           /\ pc'[p] = "unlock"
           /\ LoopGuard(p)
           /\ cursor[p] \in badTipSets
           /\ cursor[p] \notin store) =>
            /\ result'[p] = "ErrChainHasBadTipSet"
            /\ fetchLog'[p] = fetchLog[p]
            /\ blockstore' = blockstore
            /\ fetchLog'[p] \cap ({cursor[p]} \cup AncestorKeys(cursor[p])) = {}]_vars

\* The walk from a candidate fetched it and then met a cached bad ancestor.
C9_Witness ==
  \E p \in Procs :
    /\ result[p] = "ErrChainHasBadTipSet"
    /\ cursor[p] # cand[p]
    /\ cursor[p] \in badTipSets
    /\ cand[p] \in fetchLog[p]

\* C10: when RunStateTransition rejected a tipset the call handed to
\* syncOne, that tipset and its descendants in the collected chain are in
\* the bad cache when the call returns.
C10_RejectedIsCachedBad ==
  \A p \in Procs :
    (Returned(p) /\ rejected[p] # {}) =>
      /\ rejected[p] \in badTipSets
      /\ \A i \in 1..Len(chain[p]) :
           rejected[p] \in AncestorKeys(chain[p][i]) => chain[p][i] \in badTipSets

\* The results with which collectChain fails.
CollectErrors ==
  {"fetch", "invalidTipSet", "ErrChainHasBadTipSet", "ErrNewChainTooLong"}

\* C11: when NewValidTipSet rejected the blocks fetched for the key of the
\* walk, that key and the key of every tipset collected before it are in
\* the bad cache from the failure on, and the call returns.
C11_InvalidTipSetMarksWalk ==
  \A p \in Procs :
    result[p] = "invalidTipSet" =>
      /\ Returned(p)
      /\ cursor[p] \in badTipSets
      /\ \A i \in 1..Len(chain[p]) : chain[p][i] \in badTipSets

\* The blocks of the parent key of a collected tipset formed no tipset.
C11_Witness ==
  \E p \in Procs :
    /\ Returned(p)
    /\ result[p] = "invalidTipSet"
    /\ Len(chain[p]) > 0
    /\ cursor[p] = TsParents(chain[p][1])
    /\ cand[p] \in badTipSets

\* C12: a call that failed in collectChain (fetch failure or timeout,
\* NewValidTipSet failure, cached bad tipset, chain too long) has written
\* nothing: the store and the head are as the call found them.
C12_CollectFailureNoWrite ==
  \A p \in Procs :
    result[p] \in CollectErrors =>
      /\ store = pre[p].store
      /\ head = pre[p].head
      /\ puts[p] = 0

\* A walk that failed after collecting a tipset, over a store and a head
\* that earlier calls had advanced.
C12_Witness ==
  \E p \in Procs :
    /\ Returned(p)
    /\ result[p] \in CollectErrors
    /\ Len(chain[p]) > 0
    /\ head # Genesis

\* C13: no step of the syncer removes a key from the bad cache.
C13_BadMonotone == [][badTipSets \subseteq badTipSets']_vars

\* A call added keys to a cache that held others, which are still there.
C13_Witness ==
  \E p \in Procs :
    /\ Returned(p)
    /\ pre[p].bad # {}
    /\ pre[p].bad \subseteq badTipSets
    /\ badTipSets # pre[p].bad
    /\ site[p] = "chain"

\* C14: a step of syncOne that reaches the weight comparison with a tipset
\* heavier than the head sets the head to it, whether the old head is among
\* its ancestors or not.
C14_ReorgNeverBlocks ==
  [][\A p \in Procs :
       (/\ pc[p] = "promote"
        /\ pc'[p] # "promote"
        /\ ~cancelled[p]
        /\ IsHeavier(next[p], head)) => head' = next[p]]_vars

\* The head moved to the tip of a fork: the old head is no ancestor of the
\* new one and shares no block with it.
C14_Witness ==
  \E p \in Procs :
    /\ pc[p] \in {"syncOne", "unlock"}
    /\ puts[p] > 0
    /\ head = next[p]
    /\ hd[p] # Genesis
    /\ IsReorg(p)
    /\ hd[p] \cap head = {}

\* The stored tipsets with the parents and the height of ts.
Siblings(ts) ==
  {m \in store : TsParents(m) = TsParents(ts) /\ TsHeight(m) = TsHeight(ts)}

\* Those with the most blocks.
LargestSiblings(ts) ==
  {m \in Siblings(ts) : \A c \in Siblings(ts) : Cardinality(c) <= Cardinality(m)}

\* The union of ts and m differs from both.
Widens(ts, m) == (ts \cup m) # ts /\ (ts \cup m) # m

\* C15 as stated: whenever some stored tipset with the parents and height of
\* chain[0] gives a union distinct from both, the union is handed to
\* syncOne before chain[0].
C15_WidenAnyStored ==
  [][\A p \in Procs :
       (/\ pc[p] = "widen"
        /\ pc'[p] = "syncOne"
        /\ \E m \in Siblings(chain[p][1]) : Widens(chain[p][1], m)) =>
         /\ site'[p] = "widen"
         /\ next'[p] # chain[p][1]
         /\ chain[p][1] \subseteq next'[p]]_vars

\* C15: when the union of chain[0] with the largest stored tipset of its
\* parents and height is distinct from both, that union is handed to
\* syncOne before chain[0]; if it is heavier than the head it becomes the
\* head and chain[0] is synced next; and syncing chain[0] leaves a head
\* that is a wider tipset where it is.
C15_WidenLargest ==
  [][\A p \in Procs :
       LET ts == chain[p][1]
           atWiden == pc[p] = "widen" /\ pc'[p] = "syncOne"
           widenedDone == pc[p] = "promote" /\ pc'[p] # "promote"
                            /\ site[p] = "widen" /\ ~cancelled[p]
           syncingFirst == pc[p] \in {"syncOne", "promote"} /\ site[p] = "chain"
                             /\ idx[p] = 1
       IN /\ (atWiden /\ Siblings(ts) # {}
                 /\ (\A m \in LargestSiblings(ts) : Widens(ts, m)))
               => (site'[p] = "widen"
                     /\ (\E m \in LargestSiblings(ts) : next'[p] = ts \cup m))
          /\ (atWiden /\ (\A m \in LargestSiblings(ts) : ~Widens(ts, m)))
               => (site'[p] = "chain" /\ next'[p] = ts)
          /\ widenedDone
               => (head' = (IF IsHeavier(next[p], head) THEN next[p] ELSE head)
                     /\ pc'[p] = "syncOne" /\ site'[p] = "chain"
                     /\ next'[p] = ts)
          /\ (syncingFirst /\ ts \subseteq head /\ ts # head)
               => head' = head]_vars

\* The call stored the union, which became the head, and then the narrower
\* chain[0], which did not displace it.
C15_Witness ==
  \E p \in Procs :
    /\ pc[p] \in {"syncOne", "unlock"}
    /\ site[p] = "chain"
    /\ puts[p] >= 2
    /\ chain[p][1] \in store
    /\ chain[p][1] \notin pre[p].store
    /\ head \notin pre[p].store
    /\ chain[p][1] \subseteq head
    /\ chain[p][1] # head

\* C16: whenever syncOne runs on chain[i], every earlier tipset of the
\* chain is in the store, and the parent handed to syncOne is chain[i-1],
\* or for the first tipset (and its widened form) the parent of chain[0];
\* it is the parent of the tipset being synced and is in the store.
C16_OldestFirst ==
  \A p \in Procs :
    pc[p] \in {"syncOne", "promote"} =>
      /\ idx[p] \in 1..Len(chain[p])
      /\ \A j \in 1..(idx[p] - 1) : chain[p][j] \in store
      /\ parent[p] = IF idx[p] = 1 THEN TsParents(chain[p][1])
                     ELSE chain[p][idx[p] - 1]
      /\ parent[p] = TsParents(next[p])
      /\ parent[p] \in store
      /\ site[p] = "chain" => next[p] = chain[p][idx[p]]
      /\ site[p] = "widen" => idx[p] = 1

\* syncOne is about to run on the second tipset of a chain whose first the
\* call has just persisted.
C16_Witness ==
  \E p \in Procs :
    /\ pc[p] = "syncOne"
    /\ idx[p] = 2
    /\ puts[p] > 0
    /\ parent[p] = chain[p][1]
    /\ parent[p] \notin pre[p].store

\* C17: no step removes a tipset from the store; a step in which a call
\* fails or is cancelled leaves the store and the head as they are, so what
\* the call persisted and the last head it set stay.
C17_NoRollback ==
  [][/\ store \subseteq store'
     /\ \A p \in Procs :
          (pc[p] # "unlock" /\ pc'[p] = "unlock" /\ result'[p] # "ok") =>
            (/\ store' = store
             /\ head' = head
             /\ pre[p].store \subseteq store'
             /\ \A j \in 1..(idx[p] - 1) : chain[p][j] \in store')]_vars

\* A call failed at its second tipset after it had persisted the first and
\* made it the head.
C17_Witness ==
  \E p \in Procs :
    /\ Returned(p)
    /\ result[p] \in {"invalid", "cancelled"}
    /\ idx[p] = 2
    /\ chain[p][1] \in store
    /\ chain[p][1] \notin pre[p].store
    /\ head = chain[p][1]
    /\ pre[p].head # head

\* C18: a call that returned success has its key in the store, with its
\* state root.
C18_SuccessMeansStored ==
  \A p \in Procs :
    (Returned(p) /\ result[p] = "ok") => HasTipSetAndState(cand[p])

\* C19: collectChain hands HandleNewTipset a chain that is not empty and
\* whose first tipset has its parent in the store, so chain[0] is never
\* read of an empty chain and GetTipSet finds the parent; and the blocks of
\* every stored tipset are resolvable, so that a stored key takes the
\* early return.
C19_ChainNonEmpty ==
  /\ \A p \in Procs :
       /\ pc[p] = "loadParent" =>
            (chain[p] # <<>> /\ HasTipSetAndState(TsParents(chain[p][1])))
       /\ result[p] \notin {"panic", "notFound"}
  /\ \A k \in store : HasAllBlocks(k)

\* collectChain returned a chain of two tipsets down to a stored parent,
\* over a store that holds more than genesis.
C19_Witness ==
  \E p \in Procs :
    /\ pc[p] = "loadParent"
    /\ Len(chain[p]) = 2
    /\ cursor[p] \in store
    /\ store # {Genesis}

\* C20: no key is both in the store and in the bad cache.
C20_StoreDisjointBad == store \cap badTipSets = {}

\* C21: the step in which a fetch of collectChain fails (the blocks are
\* not to be had, or the ctx is done) ends the call and leaves the bad
\* cache, the store and the head as they are; afterwards neither the key
\* that was being fetched nor any tipset collected before it is in the bad
\* cache, which is as the call found it, so that a later call on the same
\* candidate starts from what this one started from.
C21_FetchFailureAddsNothing ==
  [][\A p \in Procs :
       /\ (result[p] = "none" /\ result'[p] = "fetch")
            => (/\ pc[p] = "collect"
                /\ pc'[p] = "unlock"
                /\ (cancelled[p] \/ ~(cursor[p] \subseteq (blockstore \cup net)))
                /\ badTipSets' = badTipSets
                /\ store' = store
                /\ head' = head)
       /\ (result[p] = "fetch")
            => (/\ badTipSets = pre[p].bad
                /\ cursor[p] \notin badTipSets
                /\ (\A i \in 1..Len(chain[p]) : chain[p][i] \notin badTipSets)
                /\ cand[p] \notin badTipSets)]_vars

\* A fetch timed out after the walk had collected a tipset, in a run whose
\* bad cache holds keys from earlier calls.
C21_Witness ==
  \E p \in Procs :
    /\ Returned(p)
    /\ result[p] = "fetch"
    /\ Len(chain[p]) > 0
    /\ badTipSets # {}

====
